---- MODULE Spec2Model ----
(***************************************************************************)
(* Model of the UpCloud cluster-autoscaler cloud provider.                 *)
(*                                                                         *)
(* The node group controller (upCloudNodeGroup): IncreaseSize,             *)
(* DecreaseTargetSize, scaleNodeGroup, waitNodeGroupState, DeleteNodes and *)
(* deleteNode, the lock-free accessors and the unsupported operations,     *)
(* called from concurrent goroutines against the remote UpCloud            *)
(* Kubernetes API.                                                         *)
(*                                                                         *)
(* The manager (Manager.Refresh, nodeGroupNodes, nodeStateToInstanceStatus)*)
(* and the lookup of the provider (NodeGroupForNode).                      *)
(*                                                                         *)
(* One step of the model is the code a goroutine runs between two points   *)
(* at which it blocks: a call entry up to u.mu.Lock(), the lock            *)
(* acquisition, one remote request with the handling of its answer.        *)
(***************************************************************************)
EXTENDS Integers, Sequences, FiniteSets, TLC

\* ------------------------------------------------------------------ bounds

\* nodeGroupMaxSize is 20 in the source; the model scales it down.
nodeGroupMaxSize == 2
nodeGroupMinSize == 1
\* The remote may report any count in 0..MaxCount (one above maxSize).
MaxCount == nodeGroupMaxSize + 1
\* Deltas handed to IncreaseSize / DecreaseTargetSize: -MaxDelta..MaxDelta.
MaxDelta == 2
\* Longest node sequence handed to DeleteNodes.
MaxNodes == 2
\* timeoutWaitNodeGroupState (20 min) counted in sleep intervals (3 s).
PollBudget == 2

Threads == {"t1", "t2"}
NodeNames == {"n1", "n2"}
NoThread == "none"

Deltas == (0 - MaxDelta)..MaxDelta
NodeSeqs == UNION {[1..n -> NodeNames] : n \in 0..MaxNodes}

\* upcloud.KubernetesNodeGroupState: the target state and the states of a
\* group that is being scaled.
KubernetesNodeGroupStateRunning == "running"
RemoteStates == {"running", "scaling-up", "scaling-down"}

\* The local g of waitNodeGroupState: no read yet, a failed read, or an answer.
NoRead == [ok |-> FALSE, state |-> "none", count |-> 0]
FailedRead == [ok |-> FALSE, state |-> "error", count |-> 0]
GroupAnswer(s, c) == [ok |-> TRUE, state |-> s, count |-> c]

\* The controller was not taken from the manager's collection.
NoHandle == [name |-> "none", builtBy |-> 0]

\* The value a non-mutating call returned: none yet.
NoObs == [call |-> "none", arg |-> "none", val |-> "none", err |-> "none",
          locked |-> FALSE]

VARIABLES
    size,       \* u.size
    mu,         \* u.mu: the goroutine holding it, or NoThread
    pc,         \* per goroutine: position in the call
    op,         \* per goroutine: the operation called
    delta,      \* per goroutine: argument of IncreaseSize / DecreaseTargetSize
    nodes,      \* per goroutine: argument of DeleteNodes
    newSize,    \* per goroutine: local `size` handed to scaleNodeGroup
    idx,        \* per goroutine: loop index i of DeleteNodes (1-based)
    waited,     \* per goroutine: sleeps since waitNodeGroupState began
    g,          \* per goroutine: answer of the last GetKubernetesNodeGroup
    mutErr,     \* per goroutine: answer of the last remote mutation
    result,     \* per goroutine: the value the call returned
    prevSize,   \* per goroutine: u.size when the call began
    inSync,     \* per goroutine: DeleteNodes began with u.size the remote count
    nMod,       \* per goroutine: modify requests issued by the call
    nGet,       \* per goroutine: get requests issued by the current poll
    delLog,     \* per goroutine: node names of the delete requests issued
    rcount,     \* remote: node group count
    rstate      \* remote: node group state

VARIABLES
    uNodes,     \* u.nodes
    uTaints,    \* u.taints
    handle,     \* which controller of the manager u is, if any
    obs         \* what the last accessor or unsupported operation returned

VARIABLES
    nodeGroups,         \* m.nodeGroups
    mmu,                \* m.mu: the goroutine holding it, or NoThread
    rpc,                \* per goroutine: position in Refresh
    upcloudNodeGroups,  \* per goroutine: the listing Refresh obtained
    groups,             \* per goroutine: the local groups of Refresh
    details,            \* per goroutine: answers of the instance fetches so far
    refreshErr,         \* per goroutine: the value Refresh returned
    call,               \* per goroutine: number of the Refresh call it runs
    epoch               \* Refresh calls begun so far

cached == <<uNodes, uTaints, handle>>

reads == <<cached, obs>>

manager == <<nodeGroups, mmu, rpc, upcloudNodeGroups, groups, details,
             refreshErr, call, epoch>>

vars == <<size, mu, pc, op, delta, nodes, newSize, idx, waited, g, mutErr,
          result, prevSize, inSync, nMod, nGet, delLog, rcount, rstate,
          reads, manager>>

locals == <<op, delta, nodes, newSize, idx, waited, g, mutErr, result,
            prevSize, inSync, nMod, nGet, delLog>>

remote == <<rcount, rstate>>

\* u.minSize and u.maxSize never change after construction.
minSize == nodeGroupMinSize
maxSize == nodeGroupMaxSize

\* ------------------------------------------------- instances and controllers

\* Longest node list the remote reports for a group.
MaxInst == 1
\* Refresh calls made in a run.
MaxRefresh == 2

\* upcloud.KubernetesNodeState
KubernetesNodeStateRunning == "running"
KubernetesNodeStateTerminating == "terminating"
KubernetesNodeStatePending == "pending"
KubernetesNodeStates == {"running", "terminating", "pending", "failed", "unknown"}

\* cloudprovider.InstanceState and its zero value; cloudprovider.OtherErrorClass
InstanceRunning == "InstanceRunning"
InstanceCreating == "InstanceCreating"
InstanceDeleting == "InstanceDeleting"
NoInstanceState == "unset"
OtherErrorClass == "OtherErrorClass"
NoErrorInfo == [set |-> FALSE, ErrorClass |-> "none", ErrorCode |-> "none"]
InstanceErrorInfo(class, code) == [set |-> TRUE, ErrorClass |-> class, ErrorCode |-> code]

\* Mutant: a pending node is reported as an error.
nodeStateToInstanceStatus_PendingUnknown(nodeState) ==
    IF nodeState = KubernetesNodeStateRunning
    THEN [State |-> InstanceRunning, ErrorInfo |-> NoErrorInfo]
    ELSE IF nodeState = KubernetesNodeStateTerminating
    THEN [State |-> InstanceDeleting, ErrorInfo |-> NoErrorInfo]
    ELSE [State |-> NoInstanceState,
          ErrorInfo |-> InstanceErrorInfo(OtherErrorClass, nodeState)]

nodeStateToInstanceStatus(nodeState) ==
    IF nodeState = KubernetesNodeStateRunning
    THEN [State |-> InstanceRunning, ErrorInfo |-> NoErrorInfo]
    ELSE IF nodeState = KubernetesNodeStateTerminating
    THEN [State |-> InstanceDeleting, ErrorInfo |-> NoErrorInfo]
    ELSE IF nodeState = KubernetesNodeStatePending
    THEN [State |-> InstanceCreating, ErrorInfo |-> NoErrorInfo]
    ELSE [State |-> NoInstanceState,
          ErrorInfo |-> InstanceErrorInfo(OtherErrorClass, nodeState)]

\* fmt.Sprintf("upcloud:////%s", node.UUID)
ProviderID(uuid) == "upcloud:////" \o uuid

\* cloudprovider.Instance{Id: ..., Status: nodeStateToInstanceStatus(node.State)}
Instance(node) ==
    [Id |-> ProviderID(node.UUID), Status |-> nodeStateToInstanceStatus(node.State)]

\* Mutant: the first node of the answer is dropped.
Instances_SkipFirst(ngNodes) ==
    [i \in 1..(IF Len(ngNodes) = 0 THEN 0 ELSE Len(ngNodes) - 1) |-> Instance(ngNodes[i + 1])]

\* for i := range ng.Nodes { instances = append(instances, ...) }
Instances(ngNodes) == [i \in 1..Len(ngNodes) |-> Instance(ngNodes[i])]

\* Nodes of a read answer (KubernetesNodeGroupDetails.Nodes): a group counted
\* c holds c nodes, here all running and numbered u1, u2, ...
ReadBackNodes(resp) ==
    [i \in 1..resp.count |->
        [UUID |-> "u" \o ToString(i), State |-> KubernetesNodeStateRunning]]

\* The remote's nodes: UUIDs, and the node lists of a group (no UUID twice).
UUIDs == {"u1", "u2"}
RemoteNodes(states) == [UUID : UUIDs, State : states]
NodeLists(states) ==
    {ns \in UNION {[1..n -> RemoteNodes(states)] : n \in 0..MaxInst} :
        \A i, j \in 1..Len(ns) : i # j => ns[i].UUID # ns[j].UUID}

\* The remote's groups: names, and the listings of a cluster (no name twice).
GroupNames == {"g1", "g2"}
ListedCounts == {0, MaxCount}
RemoteGroups == [Name : GroupNames, Count : ListedCounts]
Listings ==
    {gs \in UNION {[1..n -> RemoteGroups] : n \in 0..Cardinality(GroupNames)} :
        \A i, j \in 1..Len(gs) : i # j => gs[i].Name # gs[j].Name}

\* The answers of GetKubernetesNodeGroups and GetKubernetesNodeGroupDetails.
ListFailed == [ok |-> FALSE, NodeGroups |-> <<>>]
ListAnswer(gs) == [ok |-> TRUE, NodeGroups |-> gs]
FetchFailed == [ok |-> FALSE, Nodes |-> <<>>]
FetchAnswer(ns) == [ok |-> TRUE, Nodes |-> ns]

ListAnswers == {ListFailed} \cup {ListAnswer(gs) : gs \in Listings}
FetchAnswers(states) == {FetchFailed} \cup {FetchAnswer(ns) : ns \in NodeLists(states)}

\* Mutant: the controller keeps the bounds but takes the requested maximum as
\* its size.
NewNodeGroup_SizeIsMax(grp, insts, by) ==
    [name |-> grp.Name, size |-> nodeGroupMaxSize, minSize |-> nodeGroupMinSize,
     maxSize |-> nodeGroupMaxSize, nodes |-> insts, builtBy |-> by]

\* group := UpCloudNodeGroup{name: g.Name, size: g.Count, minSize: ..., nodes: nodes};
\* builtBy tells the controllers of one Refresh call from those of another.
NewNodeGroup(grp, insts, by) ==
    [name |-> grp.Name, size |-> grp.Count, minSize |-> nodeGroupMinSize,
     maxSize |-> nodeGroupMaxSize, nodes |-> insts, builtBy |-> by]

\* newManager: nodeGroups: make([]UpCloudNodeGroup, 0); no Refresh in progress.
ManagerInit ==
    /\ nodeGroups = <<>>
    /\ mmu = NoThread
    /\ rpc = [t \in Threads |-> "idle"]
    /\ upcloudNodeGroups = [t \in Threads |-> <<>>]
    /\ groups = [t \in Threads |-> <<>>]
    /\ details = [t \in Threads |-> <<>>]
    /\ refreshErr = [t \in Threads |-> "none"]
    /\ call = [t \in Threads |-> 0]
    /\ epoch = 0

\* The instances a controller may hold.
InstanceLists == {Instances(ns) : ns \in NodeLists(KubernetesNodeStates)}

\* -------------------------------------------------------------------- Init

\* A controller with its size within the bounds, no call in progress; the
\* remote group is running, with any count.
NodeGroupInit ==
    /\ size \in minSize..maxSize
    /\ rcount \in 0..MaxCount
    /\ rstate = KubernetesNodeGroupStateRunning
    /\ mu = NoThread
    /\ pc = [t \in Threads |-> "idle"]
    /\ op = [t \in Threads |-> "none"]
    /\ delta = [t \in Threads |-> 0]
    /\ nodes = [t \in Threads |-> <<>>]
    /\ newSize = [t \in Threads |-> 0]
    /\ idx = [t \in Threads |-> 0]
    /\ waited = [t \in Threads |-> 0]
    /\ g = [t \in Threads |-> NoRead]
    /\ mutErr = [t \in Threads |-> "none"]
    /\ result = [t \in Threads |-> "none"]
    /\ prevSize = [t \in Threads |-> 0]
    /\ inSync = [t \in Threads |-> FALSE]
    /\ nMod = [t \in Threads |-> 0]
    /\ nGet = [t \in Threads |-> 0]
    /\ delLog = [t \in Threads |-> <<>>]
    /\ obs = NoObs

\* The controller holds one running instance; the manager has not refreshed.
Init ==
    /\ NodeGroupInit
    /\ uNodes = Instances(<<[UUID |-> "u1", State |-> KubernetesNodeStateRunning]>>)
    /\ uTaints = <<>>
    /\ handle = NoHandle
    /\ ManagerInit

\* The controller as Manager.Refresh builds it: size is the listed count.
InitSynced == Init /\ rcount = size

\* ----------------------------------------------------------------- helpers

\* A returned result is taken by its caller before any goroutine moves on:
\* taking it changes nothing another goroutine reads.
NoneReturning == \A t \in Threads : pc[t] # "done"

Idle(t) ==
    /\ op' = [op EXCEPT ![t] = "none"]
    /\ delta' = [delta EXCEPT ![t] = 0]
    /\ nodes' = [nodes EXCEPT ![t] = <<>>]
    /\ newSize' = [newSize EXCEPT ![t] = 0]
    /\ idx' = [idx EXCEPT ![t] = 0]
    /\ waited' = [waited EXCEPT ![t] = 0]
    /\ g' = [g EXCEPT ![t] = NoRead]
    /\ mutErr' = [mutErr EXCEPT ![t] = "none"]
    /\ result' = [result EXCEPT ![t] = "none"]
    /\ prevSize' = [prevSize EXCEPT ![t] = 0]
    /\ inSync' = [inSync EXCEPT ![t] = FALSE]
    /\ nMod' = [nMod EXCEPT ![t] = 0]
    /\ nGet' = [nGet EXCEPT ![t] = 0]
    /\ delLog' = [delLog EXCEPT ![t] = <<>>]

\* The call begins: the size the controller holds at that moment.
Begin(t) ==
    /\ prevSize' = [prevSize EXCEPT ![t] = size]

\* return err, before the lock is taken.
Reject(t, err) ==
    /\ pc' = [pc EXCEPT ![t] = "done"]
    /\ result' = [result EXCEPT ![t] = err]

\* Mutant: the return leaves u.mu locked.
ReturnUnlock_NoUnlock(t, err) ==
    /\ pc' = [pc EXCEPT ![t] = "done"]
    /\ result' = [result EXCEPT ![t] = err]
    /\ UNCHANGED mu

\* return, with the deferred u.mu.Unlock().
ReturnUnlock(t, err) ==
    /\ pc' = [pc EXCEPT ![t] = "done"]
    /\ result' = [result EXCEPT ![t] = err]
    /\ mu' = NoThread

\* size := u.size + delta (IncreaseSize)
IncreaseTarget(d) == size + d

\* Mutant: the negative delta is subtracted.
DecreaseTarget_SignSlip(d) == size - d

\* size := u.size + delta (DecreaseTargetSize)
DecreaseTarget(d) == size + d

\* Mutant: a delta of 0 passes.
IncreaseDeltaInvalid_ZeroPasses(d) == d < 0

\* if delta <= 0
IncreaseDeltaInvalid(d) == d <= 0

\* Mutant: a target equal to the maximum is rejected.
IncreaseOutOfBounds_OffByOne(sz) == sz >= maxSize

\* if size > u.MaxSize()
IncreaseOutOfBounds(sz) == sz > maxSize

\* if delta >= 0
DecreaseDeltaInvalid(d) == d >= 0

\* Mutant: a target equal to the minimum is rejected.
DecreaseOutOfBounds_OffByOne(sz) == sz <= minSize

\* if size < u.MinSize()
DecreaseOutOfBounds(sz) == sz < minSize

\* Mutant: one more read is made at the deadline.
BeforeDeadline_OneMore(t) == waited[t] <= PollBudget

\* for time.Now().Before(deadline)
BeforeDeadline(t) == waited[t] < PollBudget

\* if g.State == state
StateReached(resp) == resp.state = KubernetesNodeGroupStateRunning

\* Mutant: the requested size is stored, not the count read back.
SizeReadBack_Requested(t, resp) == newSize[t]

\* u.size = nodeGroup.Count
SizeReadBack(t, resp) == resp.count

\* Mutant: the nodes are taken from the end of the input.
NodeAt_Reversed(t) == nodes[t][Len(nodes[t]) - idx[t] + 1]

\* nodes[i].GetName()
NodeAt(t) == nodes[t][idx[t]]

\* --------------------------------------------------------------- call entry

IncreaseSize(t, d) ==
    /\ NoneReturning
    /\ pc[t] = "idle"
    /\ op' = [op EXCEPT ![t] = "IncreaseSize"]
    /\ delta' = [delta EXCEPT ![t] = d]
    /\ Begin(t)
    /\ IF IncreaseDeltaInvalid(d)
       THEN Reject(t, "invalid-argument") /\ UNCHANGED newSize
       ELSE IF IncreaseOutOfBounds(IncreaseTarget(d))
            THEN Reject(t, "bounds-exceeded") /\ UNCHANGED newSize
            ELSE /\ newSize' = [newSize EXCEPT ![t] = IncreaseTarget(d)]
                 /\ pc' = [pc EXCEPT ![t] = "lock"]
                 /\ UNCHANGED result
    /\ UNCHANGED <<size, mu, nodes, idx, waited, g, mutErr, inSync, nMod, nGet,
                   delLog, remote>>
    /\ UNCHANGED <<reads, manager>>

DecreaseTargetSize(t, d) ==
    /\ NoneReturning
    /\ pc[t] = "idle"
    /\ op' = [op EXCEPT ![t] = "DecreaseTargetSize"]
    /\ delta' = [delta EXCEPT ![t] = d]
    /\ Begin(t)
    /\ IF DecreaseDeltaInvalid(d)
       THEN Reject(t, "invalid-argument") /\ UNCHANGED newSize
       ELSE IF DecreaseOutOfBounds(DecreaseTarget(d))
            THEN Reject(t, "bounds-exceeded") /\ UNCHANGED newSize
            ELSE /\ newSize' = [newSize EXCEPT ![t] = DecreaseTarget(d)]
                 /\ pc' = [pc EXCEPT ![t] = "lock"]
                 /\ UNCHANGED result
    /\ UNCHANGED <<size, mu, nodes, idx, waited, g, mutErr, inSync, nMod, nGet,
                   delLog, remote>>
    /\ UNCHANGED <<reads, manager>>

DeleteNodes(t, ns) ==
    /\ NoneReturning
    /\ pc[t] = "idle"
    /\ op' = [op EXCEPT ![t] = "DeleteNodes"]
    /\ nodes' = [nodes EXCEPT ![t] = ns]
    /\ pc' = [pc EXCEPT ![t] = "lock"]
    /\ UNCHANGED <<size, mu, delta, newSize, idx, waited, g, mutErr, result,
                   prevSize, inSync, nMod, nGet, delLog, remote>>
    /\ UNCHANGED <<reads, manager>>

\* ------------------------------------------------------------------- steps

\* Mutant: the lock is taken without waiting for its holder.
Lock_NoWait(t) ==
    /\ NoneReturning
    /\ pc[t] = "lock"
    /\ mu' = t
    /\ IF op[t] = "DeleteNodes"
       THEN /\ pc' = [pc EXCEPT ![t] = "delete"]
            /\ idx' = [idx EXCEPT ![t] = 1]
            /\ Begin(t)
            /\ inSync' = [inSync EXCEPT ![t] = (size = rcount)]
       ELSE /\ pc' = [pc EXCEPT ![t] = "modify"]
            /\ UNCHANGED <<idx, prevSize, inSync>>
    /\ UNCHANGED <<size, op, delta, nodes, newSize, waited, g, mutErr, result,
                   nMod, nGet, delLog, remote>>
    /\ UNCHANGED <<reads, manager>>

\* u.mu.Lock() of scaleNodeGroup and of DeleteNodes
Lock(t) ==
    /\ NoneReturning
    /\ pc[t] = "lock"
    /\ mu = NoThread
    /\ mu' = t
    /\ IF op[t] = "DeleteNodes"
       THEN /\ pc' = [pc EXCEPT ![t] = "delete"]
            /\ idx' = [idx EXCEPT ![t] = 1]
            /\ Begin(t)
            /\ inSync' = [inSync EXCEPT ![t] = (size = rcount)]
       ELSE /\ pc' = [pc EXCEPT ![t] = "modify"]
            /\ UNCHANGED <<idx, prevSize, inSync>>
    /\ UNCHANGED <<size, op, delta, nodes, newSize, waited, g, mutErr, result,
                   nMod, nGet, delLog, remote>>
    /\ UNCHANGED <<reads, manager>>

\* waitNodeGroupState begins: deadline := time.Now().Add(timeout); i := 1
BeginWait(t) ==
    /\ pc' = [pc EXCEPT ![t] = "poll"]
    /\ waited' = [waited EXCEPT ![t] = 0]
    /\ nGet' = [nGet EXCEPT ![t] = 0]
    /\ g' = [g EXCEPT ![t] = NoRead]

\* Mutant: the error of the modify request is not checked.
ScaleRequestFailed_Ignored(t) ==
    /\ BeginWait(t)
    /\ UNCHANGED <<mu, result>>

\* Mutant: a failed modify request is issued again.
ScaleRequestFailed_Retried(t) ==
    UNCHANGED <<pc, mu, result, waited, g, nGet>>

\* if err != nil { return fmt.Errorf("failed to scale node group ...") }
ScaleRequestFailed(t) ==
    /\ ReturnUnlock(t, "remote-operation-failed")
    /\ UNCHANGED <<waited, g, nGet>>

\* Mutant: the error of the delete request is swallowed.
DeleteRequestFailed_Swallowed(t) ==
    /\ ReturnUnlock(t, "ok")
    /\ UNCHANGED <<waited, g, nGet>>

\* if err := u.deleteNode(...); err != nil { return err }
DeleteRequestFailed(t) ==
    /\ ReturnUnlock(t, "remote-operation-failed")
    /\ UNCHANGED <<waited, g, nGet>>

\* Mutant: the error of the wait is not checked, the last answer is stored.
WaitFailed_Ignored(t, err) ==
    /\ size' = g[t].count
    /\ ReturnUnlock(t, "ok")
    /\ UNCHANGED idx

\* nodeGroup, err := u.waitNodeGroupState(...); if err != nil { return err }
WaitFailed(t, err) ==
    /\ ReturnUnlock(t, err)
    /\ UNCHANGED <<size, idx>>

\* Mutant: a failed read is slept over and tried again.
ReadFailed_Retried(t) ==
    /\ waited' = [waited EXCEPT ![t] = @ + 1]
    /\ UNCHANGED <<size, mu, pc, result, idx>>

\* if err != nil { return g, fmt.Errorf("failed to fetch node group ...") }
ReadFailed(t) ==
    /\ WaitFailed(t, "fetch-failed")
    /\ UNCHANGED waited

\* The state of a group the remote has begun to scale to count c.
Scaling(c) == IF c > rcount THEN "scaling-up" ELSE "scaling-down"

\* u.svc.ModifyKubernetesNodeGroup(ctx, {Count: size}) and its err check
ModifyKubernetesNodeGroup(t) ==
    /\ NoneReturning
    /\ pc[t] = "modify"
    /\ nMod' = [nMod EXCEPT ![t] = @ + 1]
    /\ \/ /\ mutErr' = [mutErr EXCEPT ![t] = "accepted"]
          /\ rcount' = newSize[t]
          /\ rstate' \in {KubernetesNodeGroupStateRunning, Scaling(newSize[t])}
          /\ BeginWait(t)
          /\ UNCHANGED <<mu, result>>
       \/ /\ mutErr' = [mutErr EXCEPT ![t] = "failed"]
          /\ ScaleRequestFailed(t)
          /\ UNCHANGED <<rcount, rstate>>
    /\ UNCHANGED <<size, op, delta, nodes, newSize, idx, prevSize, inSync,
                   delLog>>
    /\ UNCHANGED <<reads, manager>>

\* Mutant: the group is read back once more after the loop and its count is
\* stored.
DeleteNodesReturn_ReadsBack(t) ==
    /\ NoneReturning
    /\ pc[t] = "delete"
    /\ idx[t] > Len(nodes[t])
    /\ ReturnUnlock(t, "ok")
    /\ size' = rcount
    /\ nGet' = [nGet EXCEPT ![t] = @ + 1]
    /\ UNCHANGED <<op, delta, nodes, newSize, idx, waited, g, mutErr,
                   prevSize, inSync, nMod, delLog, remote>>
    /\ UNCHANGED <<reads, manager>>

\* for i := range nodes: the loop is over, return nil
DeleteNodesReturn(t) ==
    /\ NoneReturning
    /\ pc[t] = "delete"
    /\ idx[t] > Len(nodes[t])
    /\ ReturnUnlock(t, "ok")
    /\ UNCHANGED <<size, op, delta, nodes, newSize, idx, waited, g, mutErr,
                   prevSize, inSync, nMod, nGet, delLog, remote>>
    /\ UNCHANGED <<reads, manager>>

\* u.deleteNode(nodes[i].GetName()) and its err check
deleteNode(t) ==
    /\ NoneReturning
    /\ pc[t] = "delete"
    /\ idx[t] <= Len(nodes[t])
    /\ delLog' = [delLog EXCEPT ![t] = Append(@, NodeAt(t))]
    /\ \/ /\ rcount > 0
          /\ mutErr' = [mutErr EXCEPT ![t] = "accepted"]
          /\ rcount' = rcount - 1
          /\ rstate' \in {KubernetesNodeGroupStateRunning, "scaling-down"}
          /\ BeginWait(t)
          /\ UNCHANGED <<mu, result>>
       \/ /\ mutErr' = [mutErr EXCEPT ![t] = "failed"]
          /\ DeleteRequestFailed(t)
          /\ UNCHANGED <<rcount, rstate>>
    /\ UNCHANGED <<size, op, delta, nodes, newSize, idx, prevSize, inSync,
                   nMod>>
    /\ UNCHANGED <<reads, manager>>

\* waitNodeGroupState: the deadline has passed at the loop head
WaitTimedOut(t) ==
    /\ NoneReturning
    /\ pc[t] = "poll"
    /\ ~BeforeDeadline(t)
    /\ WaitFailed(t, "convergence-timeout")
    /\ UNCHANGED <<op, delta, nodes, newSize, waited, g, mutErr,
                   prevSize, inSync, nMod, nGet, delLog, remote>>
    /\ UNCHANGED <<reads, manager>>

\* What the caller of waitNodeGroupState does with a group in the target state:
\* u.size = nodeGroup.Count, then return nil (scaleNodeGroup) or the next node.
Converged(t, resp) ==
    /\ size' = SizeReadBack(t, resp)
    /\ IF op[t] = "DeleteNodes"
       THEN /\ pc' = [pc EXCEPT ![t] = "delete"]
            /\ idx' = [idx EXCEPT ![t] = @ + 1]
            /\ UNCHANGED <<mu, result>>
       ELSE /\ ReturnUnlock(t, "ok")
            /\ UNCHANGED idx

\* Mutant: a read-back in the awaited state replaces the cached instances.
CachedNodes_FromReadBack(t, resp) ==
    IF resp.ok /\ StateReached(resp)
    THEN Instances(ReadBackNodes(resp))
    ELSE uNodes

\* u.nodes after a read: neither waitNodeGroupState nor its callers assign it
CachedNodes(t, resp) == uNodes

\* waitNodeGroupState: one iteration, u.svc.GetKubernetesNodeGroup and what
\* follows it
GetKubernetesNodeGroup(t) ==
    /\ NoneReturning
    /\ pc[t] = "poll"
    /\ BeforeDeadline(t)
    /\ nGet' = [nGet EXCEPT ![t] = @ + 1]
    /\ \/ /\ g' = [g EXCEPT ![t] = FailedRead]
          /\ ReadFailed(t)
       \/ /\ g' = [g EXCEPT ![t] = GroupAnswer(rstate, rcount)]
          /\ IF StateReached(GroupAnswer(rstate, rcount))
             THEN /\ Converged(t, GroupAnswer(rstate, rcount))
                  /\ UNCHANGED waited
             ELSE \* time.Sleep(3 * time.Second); i++
                  /\ waited' = [waited EXCEPT ![t] = @ + 1]
                  /\ UNCHANGED <<size, mu, pc, result, idx>>
    /\ UNCHANGED <<op, delta, nodes, newSize, mutErr, prevSize, inSync,
                   nMod, delLog, remote>>
    /\ uNodes' = CachedNodes(t, g'[t])
    /\ UNCHANGED <<uTaints, handle, obs, manager>>

\* The caller takes the result; the goroutine may call again.
Return(t) ==
    /\ pc[t] = "done"
    /\ pc' = [pc EXCEPT ![t] = "idle"]
    /\ Idle(t)
    /\ UNCHANGED <<size, mu, remote>>
    /\ UNCHANGED <<reads, manager>>

\* ------------------------------------------------------------------ remote

\* The control plane finishes a scaling operation in the background.
RemoteSettle ==
    /\ NoneReturning
    /\ rstate # KubernetesNodeGroupStateRunning
    /\ rstate' = KubernetesNodeGroupStateRunning
    /\ UNCHANGED <<size, mu, pc, locals, rcount>>
    /\ UNCHANGED <<reads, manager>>

\* A remote that clamps a count, or is changed by others: any count, any state.
RemoteDrift ==
    /\ NoneReturning
    /\ \E c \in 0..MaxCount, s \in RemoteStates :
          /\ <<c, s>> # <<rcount, rstate>>
          /\ rcount' = c
          /\ rstate' = s
    /\ UNCHANGED <<size, mu, pc, locals>>
    /\ UNCHANGED <<reads, manager>>

\* ------------------------------------------- accessors and unsupported calls

\* u.clusterID.String() and u.name of the controller
clusterID == "c1"
groupName == "g1"

\* cloudprovider.ErrNotImplemented
ErrNotImplemented == "not-implemented"

\* The instance lists a controller may have been built with.
CachedNodeLists == {Instances(ns) : ns \in NodeLists({KubernetesNodeStateRunning})}

\* A call returns val and err to its caller; locked tells whether a mutating
\* operation held u.mu at that moment.
Returned(c, a, v, er) ==
    /\ obs' = [call |-> c, arg |-> a, val |-> v, err |-> er,
               locked |-> (mu # NoThread)]
    /\ UNCHANGED <<size, mu, pc, locals, remote, cached, manager>>

\* Mutant: the size is asked from the remote.
CachedSize_Remote == rcount

\* u.size, as TargetSize reads it
CachedSize == size

\* Mutant: AtomicIncreaseSize accepts a positive delta.
AtomicIncreaseSizeErr_Accepts(d) == IF d > 0 THEN "nil" ELSE ErrNotImplemented

\* return cloudprovider.ErrNotImplemented
AtomicIncreaseSizeErr(d) == ErrNotImplemented

Id ==
    /\ obs.call = "none"
    /\ Returned("Id", "none", clusterID \o "/" \o groupName, "none")

MinSize ==
    /\ obs.call = "none"
    /\ Returned("MinSize", "none", minSize, "none")

MaxSize ==
    /\ obs.call = "none"
    /\ Returned("MaxSize", "none", maxSize, "none")

TargetSize ==
    /\ obs.call = "none"
    /\ Returned("TargetSize", "none", CachedSize, "nil")

Nodes ==
    /\ obs.call = "none"
    /\ Returned("Nodes", "none", uNodes, "nil")

Autoprovisioned ==
    /\ obs.call = "none"
    /\ Returned("Autoprovisioned", "none", FALSE, "none")

Create ==
    /\ obs.call = "none"
    /\ Returned("Create", "none", "nil", ErrNotImplemented)

Delete ==
    /\ obs.call = "none"
    /\ Returned("Delete", "none", "none", ErrNotImplemented)

GetOptions ==
    /\ obs.call = "none"
    /\ Returned("GetOptions", "defaults", "nil", ErrNotImplemented)

AtomicIncreaseSize(d) ==
    /\ obs.call = "none"
    /\ Returned("AtomicIncreaseSize", d, "none", AtomicIncreaseSizeErr(d))

\* Most taints a node group is configured with.
MaxTaints == 2

\* upcloud.KubernetesTaint values of the group's configuration
KubernetesTaints ==
    { [Effect |-> "NoSchedule", Key |-> "foo", Value |-> "bar"],
      [Effect |-> "NoExecute", Key |-> "dedicated", Value |-> "gpu"] }

\* The values u.taints may hold.
TaintLists == UNION {[1..n -> KubernetesTaints] : n \in 0..MaxTaints}

\* The zero value of apiv1.Taint
ZeroTaint == [Effect |-> "", Key |-> "", Value |-> ""]

\* apiv1.Taint{Effect: ..., Key: ..., Value: ...}
Taint(kt) == [Effect |-> kt.Effect, Key |-> kt.Key, Value |-> kt.Value]

\* make([]apiv1.Taint, n): n zero-valued entries
MakeTaints(n) == [i \in 1..n |-> ZeroTaint]

\* tains: the made slice with one entry appended per configured taint
TemplateTaints(taints) ==
    MakeTaints(Len(taints)) \o [i \in 1..Len(taints) |-> Taint(taints[i])]

\* The node of the returned NodeInfo: its name, provider ID and taints.
TemplateNode ==
    [ Name |-> "upcloud-template-" \o groupName,
      ProviderID |-> "upcloud:////" \o groupName,
      Taints |-> TemplateTaints(uTaints) ]

\* Mutant: only a group of more than one node has no template.
TemplateUnavailable_AboveOne == size > 1

\* if u.size > 0
TemplateUnavailable == size > 0

TemplateNodeInfo ==
    /\ obs.call = "none"
    /\ IF TemplateUnavailable
          THEN Returned("TemplateNodeInfo", "none", "nil", ErrNotImplemented)
          ELSE Returned("TemplateNodeInfo", "none", TemplateNode, "nil")

\* The caller takes what the call returned.
ObsTaken ==
    /\ obs.call # "none"
    /\ obs' = NoObs
    /\ UNCHANGED <<size, mu, pc, locals, remote, cached, manager>>

\* ----------------------------------------------------------------- manager

\* A returned result is taken by its caller before any goroutine moves on.
ManagerQuiet == obs.call = "none" /\ \A t \in Threads : rpc[t] # "done"

nodeGroupVars == <<size, mu, pc, locals, remote, cached>>

\* Refresh is called: the goroutine arrives at m.mu.Lock().
Refresh(t) ==
    /\ ManagerQuiet
    /\ rpc[t] = "idle"
    /\ epoch < MaxRefresh
    /\ epoch' = epoch + 1
    /\ call' = [call EXCEPT ![t] = epoch + 1]
    /\ rpc' = [rpc EXCEPT ![t] = "lock"]
    /\ UNCHANGED <<nodeGroups, mmu, upcloudNodeGroups, groups, details, refreshErr>>
    /\ UNCHANGED <<nodeGroupVars, obs>>

\* Mutant: the manager lock is taken without waiting for its holder.
RefreshLock_NoWait(t) ==
    /\ ManagerQuiet
    /\ rpc[t] = "lock"
    /\ mmu' = t
    /\ rpc' = [rpc EXCEPT ![t] = "list"]
    /\ groups' = [groups EXCEPT ![t] = <<>>]
    /\ UNCHANGED <<nodeGroups, upcloudNodeGroups, details, refreshErr, call, epoch>>
    /\ UNCHANGED <<nodeGroupVars, obs>>

\* m.mu.Lock(); groups := make([]UpCloudNodeGroup, 0)
RefreshLock(t) ==
    /\ ManagerQuiet
    /\ rpc[t] = "lock"
    /\ mmu = NoThread
    /\ mmu' = t
    /\ rpc' = [rpc EXCEPT ![t] = "list"]
    /\ groups' = [groups EXCEPT ![t] = <<>>]
    /\ UNCHANGED <<nodeGroups, upcloudNodeGroups, details, refreshErr, call, epoch>>
    /\ UNCHANGED <<nodeGroupVars, obs>>

\* Mutant: the failed listing installs the empty groups slice before it
\* returns.
GetKubernetesNodeGroups_ClearsOnError(t, ans) ==
    /\ ManagerQuiet
    /\ rpc[t] = "list"
    /\ IF ans.ok
       THEN /\ upcloudNodeGroups' = [upcloudNodeGroups EXCEPT ![t] = ans.NodeGroups]
            /\ rpc' = [rpc EXCEPT ![t] = "fetch"]
            /\ UNCHANGED <<mmu, refreshErr, nodeGroups>>
       ELSE /\ refreshErr' = [refreshErr EXCEPT ![t] = "list-failed"]
            /\ mmu' = NoThread
            /\ rpc' = [rpc EXCEPT ![t] = "done"]
            /\ nodeGroups' = groups[t]
            /\ UNCHANGED upcloudNodeGroups
    /\ UNCHANGED <<groups, details, call, epoch>>
    /\ UNCHANGED <<nodeGroupVars, obs>>

\* m.svc.GetKubernetesNodeGroups(...); if err != nil { return err }
GetKubernetesNodeGroups(t, ans) ==
    /\ ManagerQuiet
    /\ rpc[t] = "list"
    /\ IF ans.ok
       THEN /\ upcloudNodeGroups' = [upcloudNodeGroups EXCEPT ![t] = ans.NodeGroups]
            /\ rpc' = [rpc EXCEPT ![t] = "fetch"]
            /\ UNCHANGED <<mmu, refreshErr>>
       ELSE /\ refreshErr' = [refreshErr EXCEPT ![t] = "list-failed"]
            /\ mmu' = NoThread
            /\ rpc' = [rpc EXCEPT ![t] = "done"]
            /\ UNCHANGED upcloudNodeGroups
    /\ UNCHANGED <<nodeGroups, groups, details, call, epoch>>
    /\ UNCHANGED <<nodeGroupVars, obs>>

\* Mutant: a group whose instance fetch failed is kept, with the instances
\* nodeGroupNodes returned along with the error.
FetchedGroups_KeepsFailed(t, grp, ans) ==
    Append(groups[t], NewNodeGroup(grp, Instances(ans.Nodes), call[t]))

\* nodes, err := nodeGroupNodes(...); if err != nil { continue };
\* groups = append(groups, group)
FetchedGroups(t, grp, ans) ==
    IF ans.ok
    THEN Append(groups[t], NewNodeGroup(grp, Instances(ans.Nodes), call[t]))
    ELSE groups[t]

\* One iteration of the loop over upcloudNodeGroups: nodeGroupNodes with its
\* GetKubernetesNodeGroupDetails request, and the controller built from it.
nodeGroupNodes(t, ans) ==
    /\ ManagerQuiet
    /\ rpc[t] = "fetch"
    /\ Len(details[t]) < Len(upcloudNodeGroups[t])
    /\ details' = [details EXCEPT ![t] = Append(@, ans)]
    /\ groups' = [groups EXCEPT ![t] =
                    FetchedGroups(t, upcloudNodeGroups[t][Len(details[t]) + 1], ans)]
    /\ UNCHANGED <<nodeGroups, mmu, rpc, upcloudNodeGroups, refreshErr, call, epoch>>
    /\ UNCHANGED <<nodeGroupVars, obs>>

\* Mutant: the new controllers are added to the cached ones.
Replaced_Appended(t) == nodeGroups \o groups[t]

\* m.nodeGroups = groups
Replaced(t) == groups[t]

\* The loop is over: m.nodeGroups = groups; return nil, with the deferred
\* m.mu.Unlock().
RefreshDone(t) ==
    /\ ManagerQuiet
    /\ rpc[t] = "fetch"
    /\ Len(details[t]) = Len(upcloudNodeGroups[t])
    /\ nodeGroups' = Replaced(t)
    /\ mmu' = NoThread
    /\ refreshErr' = [refreshErr EXCEPT ![t] = "nil"]
    /\ rpc' = [rpc EXCEPT ![t] = "done"]
    /\ UNCHANGED <<upcloudNodeGroups, groups, details, call, epoch>>
    /\ UNCHANGED <<nodeGroupVars, obs>>

\* The caller takes the result of Refresh.
RefreshReturn(t) ==
    /\ rpc[t] = "done"
    /\ rpc' = [rpc EXCEPT ![t] = "idle"]
    /\ upcloudNodeGroups' = [upcloudNodeGroups EXCEPT ![t] = <<>>]
    /\ groups' = [groups EXCEPT ![t] = <<>>]
    /\ details' = [details EXCEPT ![t] = <<>>]
    /\ refreshErr' = [refreshErr EXCEPT ![t] = "none"]
    /\ call' = [call EXCEPT ![t] = 0]
    /\ UNCHANGED <<nodeGroups, mmu, epoch>>
    /\ UNCHANGED <<nodeGroupVars, obs>>

\* ------------------------------------------------------------------ provider

\* The result of NodeGroupForNode that stands for nil.
NoGroup == 0

\* for _, n := range nodes { if n.Id == providerID ... }
HasInstance(insts, providerID) ==
    \E j \in 1..Len(insts) : insts[j].Id = providerID

\* Mutant: the scan compares the provider ID with the name of the group.
RECURSIVE ScanGroups_ByName(_, _)
ScanGroups_ByName(i, providerID) ==
    IF i > Len(nodeGroups)
    THEN NoGroup
    ELSE IF ProviderID(nodeGroups[i].name) = providerID \/ HasInstance(nodeGroups[i].nodes, providerID)
         THEN i
         ELSE ScanGroups_ByName(i + 1, providerID)

\* Mutant: the scan goes on after a match and returns the last one.
ScanGroups_Last(i, providerID) ==
    LET matches == {k \in i..Len(nodeGroups) :
                        HasInstance(nodeGroups[k].nodes, providerID)}
    IN IF matches = {}
       THEN NoGroup
       ELSE CHOOSE k \in matches : \A j \in matches : j <= k

\* for _, group := range u.manager.nodeGroups: the position of the group
\* returned, NoGroup after the loop
RECURSIVE ScanGroups(_, _)
ScanGroups(i, providerID) ==
    IF i > Len(nodeGroups)
    THEN NoGroup
    ELSE IF HasInstance(nodeGroups[i].nodes, providerID)
         THEN i
         ELSE ScanGroups(i + 1, providerID)

\* node.Spec.ProviderID of the nodes looked up
ProviderIDs == {ProviderID("u1"), ProviderID("g1"), "u1"}

NodeGroupForNode(providerID) ==
    /\ ManagerQuiet
    /\ obs' = [call |-> "NodeGroupForNode", arg |-> providerID,
               val |-> ScanGroups(1, providerID), err |-> "nil",
               locked |-> (mmu # NoThread)]
    /\ UNCHANGED <<nodeGroupVars, manager>>

\* -------------------------------------------------------------------- Next

Call(t) ==
    \/ \E d \in Deltas : IncreaseSize(t, d)
    \/ \E d \in Deltas : DecreaseTargetSize(t, d)
    \/ \E ns \in NodeSeqs : DeleteNodes(t, ns)

Step(t) ==
    \/ Lock(t)
    \/ ModifyKubernetesNodeGroup(t)
    \/ deleteNode(t)
    \/ DeleteNodesReturn(t)
    \/ GetKubernetesNodeGroup(t)
    \/ WaitTimedOut(t)

\* Concurrent goroutines, a remote that may report anything.
NextConcurrent ==
    \/ \E t \in Threads : Call(t) \/ Step(t) \/ Return(t)
    \/ RemoteSettle
    \/ RemoteDrift

SpecConcurrent == Init /\ [][NextConcurrent]_vars

\* The goroutine of a caller that makes one call after the other.
Caller == "t1"

\* One call at a time, a remote that may report anything.
Next ==
    \/ Call(Caller)
    \/ Step(Caller)
    \/ Return(Caller)
    \/ RemoteSettle
    \/ RemoteDrift

Spec == Init /\ [][Next]_vars

\* One call at a time, a remote whose count changes only by the requests it
\* accepted.
NextFaithful ==
    \/ Call(Caller)
    \/ Step(Caller)
    \/ Return(Caller)
    \/ RemoteSettle

SpecFaithful == InitSynced /\ [][NextFaithful]_vars

\* One call at a time on a controller built from a settled group: one cached
\* instance per counted node; a remote whose count changes only by the requests
\* it accepted.
InitSettled ==
    /\ NodeGroupInit
    /\ rcount = size
    /\ uNodes = Instances(ReadBackNodes(GroupAnswer(KubernetesNodeGroupStateRunning, size)))
    /\ uTaints = <<>>
    /\ handle = NoHandle
    /\ ManagerInit

SpecSettled == InitSettled /\ [][NextFaithful]_vars

\* One mutating call at a time, a remote whose count changes only by the
\* requests it accepted, and the accessors and unsupported operations called at
\* any moment from other goroutines.
InitReads ==
    /\ NodeGroupInit
    /\ rcount = size
    /\ uNodes \in CachedNodeLists
    /\ uTaints = <<>>
    /\ handle = NoHandle
    /\ ManagerInit

NextReads ==
    \/ Call(Caller)
    \/ Step(Caller)
    \/ Return(Caller)
    \/ RemoteSettle
    \/ Id
    \/ MinSize
    \/ MaxSize
    \/ TargetSize
    \/ Nodes
    \/ Autoprovisioned
    \/ Create
    \/ Delete
    \/ GetOptions
    \/ \E d \in Deltas : AtomicIncreaseSize(d)
    \/ ObsTaken

SpecReads == InitReads /\ [][NextReads]_vars

\* One mutating call at a time, a remote whose count changes only by the
\* requests it accepted, a controller configured with any taints, and
\* TemplateNodeInfo called at any moment from another goroutine.
InitTemplate ==
    /\ NodeGroupInit
    /\ rcount = size
    /\ uNodes = <<>>
    /\ uTaints \in TaintLists
    /\ handle = NoHandle
    /\ ManagerInit

NextTemplate ==
    \/ Call(Caller)
    \/ Step(Caller)
    \/ Return(Caller)
    \/ RemoteSettle
    \/ TemplateNodeInfo
    \/ ObsTaken

SpecTemplate == InitTemplate /\ [][NextTemplate]_vars

\* Concurrent goroutines, a remote whose count changes only by the requests
\* it accepted.
NextShared ==
    \/ \E t \in Threads : Call(t) \/ Step(t) \/ Return(t)
    \/ RemoteSettle

SpecShared == InitSynced /\ [][NextShared]_vars

\* Concurrent goroutines whose DeleteNodes calls name one node, any number of
\* times; every remote call returns, time advances and a goroutine that can run
\* infinitely often does run: a waiter of u.mu gets the lock in the end, and a
\* caller takes the result of its call.
NextLive ==
    \/ \E t \in Threads :
          \/ \E d \in Deltas : IncreaseSize(t, d)
          \/ \E d \in Deltas : DecreaseTargetSize(t, d)
          \/ \E n \in 0..MaxNodes : DeleteNodes(t, [i \in 1..n |-> "n1"])
          \/ Step(t)
          \/ Return(t)
    \/ RemoteSettle

Fairness ==
    \A t \in Threads : SF_vars(Step(t)) /\ WF_vars(Return(t))

SpecLive == InitSynced /\ [][NextLive]_vars /\ Fairness

\* The manager with concurrent Refresh calls; the controllers it builds are
\* not operated on.
InitManager ==
    /\ Init
    /\ size = minSize
    /\ rcount = size

RefreshStep(t, lists, fetches) ==
    \/ Refresh(t)
    \/ RefreshLock(t)
    \/ \E ans \in lists : GetKubernetesNodeGroups(t, ans)
    \/ \E ans \in fetches : nodeGroupNodes(t, ans)
    \/ RefreshDone(t)
    \/ RefreshReturn(t)

NextManager ==
    \/ \E t \in Threads :
          RefreshStep(t, ListAnswers, FetchAnswers({KubernetesNodeStateRunning}))

SpecManager == InitManager /\ [][NextManager]_vars

\* One Refresh at a time, and NodeGroupForNode called at any moment from
\* another goroutine.
NextProvider ==
    \/ RefreshStep(Caller, ListAnswers, FetchAnswers({KubernetesNodeStateRunning}))
    \/ \E providerID \in ProviderIDs : NodeGroupForNode(providerID)
    \/ ObsTaken

SpecProvider == InitManager /\ [][NextProvider]_vars

\* Mutant: a controller is the one held when it has the same name.
Held_ByName(c) == handle.name = c.name

\* The controller c of a collection is the very object the caller holds.
Held(c) == handle = [name |-> c.name, builtBy |-> c.builtBy]

\* u.size of the controller c: the fields of the held controller are the
\* variables size and uNodes, every other controller is as it was built.
SizeOf(c) == IF Held(c) THEN size ELSE c.size

\* NodeGroups()[k]: between two calls the caller takes the k-th controller of
\* the collection and calls its operations from then on.
NodeGroups(k) ==
    /\ \A t \in Threads : pc[t] = "idle"
    /\ k \in 1..Len(nodeGroups)
    /\ ~Held(nodeGroups[k])
    /\ handle' = [name |-> nodeGroups[k].name, builtBy |-> nodeGroups[k].builtBy]
    /\ size' = nodeGroups[k].size
    /\ uNodes' = nodeGroups[k].nodes
    /\ UNCHANGED <<mu, pc, locals, remote, uTaints, obs, manager>>

\* The goroutine that refreshes while another one operates a controller.
Refresher == "t2"

\* Clusters of at most one group: Refresh runs in one goroutine while the
\* other takes a controller from the collection and calls its operations (by
\* one node at a time), also across a Refresh.
NextHeld ==
    \/ RefreshStep(Refresher, {a \in ListAnswers : Len(a.NodeGroups) <= 1},
                   {FetchFailed, FetchAnswer(<<>>)})
    \/ \E k \in 1..Cardinality(GroupNames) : NodeGroups(k)
    \/ IncreaseSize(Caller, 1)
    \/ DecreaseTargetSize(Caller, -1)
    \/ DeleteNodes(Caller, <<"n1">>)
    \/ Step(Caller)
    \/ Return(Caller)
    \/ RemoteSettle

SpecHeld == InitManager /\ [][NextHeld]_vars

\* A count the remote may list for a group that was scaled by other means:
\* more than one above the maximum the manager gives its controllers.
OversizedCount == nodeGroupMaxSize + 2

\* The cluster lists one group of that count: Refresh runs in one goroutine
\* while the other takes the controller built from it and calls its operations.
NextOversized ==
    \/ RefreshStep(Refresher,
                   {ListFailed,
                    ListAnswer(<<[Name |-> groupName, Count |-> OversizedCount]>>)},
                   {FetchFailed, FetchAnswer(<<>>)})
    \/ \E k \in 1..Cardinality(GroupNames) : NodeGroups(k)
    \/ IncreaseSize(Caller, 1)
    \/ DecreaseTargetSize(Caller, -1)
    \/ DeleteNodes(Caller, <<"n1">>)
    \/ Step(Caller)
    \/ Return(Caller)
    \/ RemoteSettle

SpecOversized == InitManager /\ [][NextOversized]_vars

\* One Refresh at a time over clusters of at most one group, whose nodes are in
\* any state.
NextNodeStates ==
    \/ RefreshStep(Caller, {a \in ListAnswers : Len(a.NodeGroups) <= 1},
                   FetchAnswers(KubernetesNodeStates))

SpecNodeStates == InitManager /\ [][NextNodeStates]_vars

\* ------------------------------------------------------------------ claims

ScaleOps == {"IncreaseSize", "DecreaseTargetSize"}

\* Goroutine t enters a call of operation name in this step.
Called(t, name) == pc[t] = "idle" /\ op'[t] = name

\* The call of t returns err in this step without a remote request and
\* without a change of u.size or of the remote group.
RejectedAtEntry(t, err) ==
    /\ pc'[t] = "done"
    /\ result'[t] = err
    /\ nMod'[t] = 0
    /\ nGet'[t] = 0
    /\ delLog'[t] = <<>>
    /\ mutErr'[t] = "none"
    /\ UNCHANGED <<size, rcount, rstate, mu>>

\* Goroutine t takes a step of its call.
Moved(t) == <<pc[t], waited[t], nGet[t], g[t], result[t]>>'
                # <<pc[t], waited[t], nGet[t], g[t], result[t]>>

\* C1 (as claimed): every IncreaseSize, DecreaseTargetSize and DeleteNodes call
\* that returns success leaves minSize <= size <= maxSize.
C1_SuccessKeepsSizeInBounds ==
    \A t \in Threads :
        (pc[t] = "done" /\ result[t] = "ok") => (minSize <= size /\ size <= maxSize)

\* C2: IncreaseSize(delta) with delta <= 0 returns the invalid-argument error,
\* issues no modify and no get request, and leaves u.size unchanged.
C2_IncreaseRejectsNonPositiveDelta ==
    [][\A t \in Threads :
        (Called(t, "IncreaseSize") /\ delta'[t] <= 0)
            => RejectedAtEntry(t, "invalid-argument")]_vars

C2_Witness ==
    \E t \in Threads :
        /\ pc[t] = "done"
        /\ op[t] = "IncreaseSize"
        /\ delta[t] <= 0
        /\ result[t] = "invalid-argument"
        /\ size = prevSize[t]

\* C3: IncreaseSize(delta) with delta > 0 and size+delta > maxSize returns the
\* bounds-exceeded error, issues no remote request and leaves u.size unchanged;
\* with size+delta = maxSize the call is not rejected and goes on to scale to
\* maxSize.
C3_IncreaseRejectsAboveMax ==
    [][\A t \in Threads :
        (Called(t, "IncreaseSize") /\ delta'[t] > 0)
            => /\ (size + delta'[t] > maxSize) => RejectedAtEntry(t, "bounds-exceeded")
               /\ (size + delta'[t] = maxSize)
                     => /\ pc'[t] = "lock"
                        /\ result'[t] = "none"
                        /\ newSize'[t] = maxSize]_vars

C3_Witness ==
    \E t \in Threads :
        /\ pc[t] = "done"
        /\ op[t] = "IncreaseSize"
        /\ delta[t] > 0
        /\ prevSize[t] + delta[t] > maxSize
        /\ result[t] = "bounds-exceeded"
        /\ size = prevSize[t]

\* C4: DecreaseTargetSize(delta) returns an error, issues no remote request and
\* leaves u.size unchanged when delta >= 0 or size+delta < minSize; with
\* size+delta = minSize the call is not rejected and goes on to scale to minSize.
C4_DecreaseRejects ==
    [][\A t \in Threads :
        Called(t, "DecreaseTargetSize")
            => /\ (delta'[t] >= 0) => RejectedAtEntry(t, "invalid-argument")
               /\ (delta'[t] < 0 /\ size + delta'[t] < minSize)
                     => RejectedAtEntry(t, "bounds-exceeded")
               /\ (delta'[t] < 0 /\ size + delta'[t] = minSize)
                     => /\ pc'[t] = "lock"
                        /\ result'[t] = "none"
                        /\ newSize'[t] = minSize]_vars

C4_Witness ==
    \E t \in Threads :
        /\ pc[t] = "done"
        /\ op[t] = "DecreaseTargetSize"
        /\ delta[t] < 0
        /\ prevSize[t] + delta[t] < minSize
        /\ result[t] = "bounds-exceeded"
        /\ size = prevSize[t]

\* C5: every change of u.size is made by the goroutine that holds the lock,
\* polls after an accepted mutation and has just read a group in state running,
\* and stores the count of that answer; a scale call that returned success
\* leaves u.size at the count of the running answer it read.
C5_SizeIsReadBack ==
    /\ [](\A t \in Threads :
            (pc[t] = "done" /\ result[t] = "ok" /\ op[t] \in ScaleOps)
                => /\ g[t].ok
                   /\ g[t].state = KubernetesNodeGroupStateRunning
                   /\ size = g[t].count)
    /\ [][size' # size =>
            \E t \in Threads :
                /\ mu = t
                /\ pc[t] = "poll"
                /\ mutErr[t] = "accepted"
                /\ nGet'[t] = nGet[t] + 1
                /\ g'[t] = GroupAnswer(rstate, rcount)
                /\ g'[t].state = KubernetesNodeGroupStateRunning
                /\ size' = g'[t].count]_vars

\* A scale call succeeded and the count read back is not the requested one.
C5_Witness ==
    \E t \in Threads :
        /\ pc[t] = "done"
        /\ result[t] = "ok"
        /\ op[t] \in ScaleOps
        /\ size = g[t].count
        /\ size # newSize[t]

C7_ModifyFailureReturns ==
    [][\A t \in Threads :
        (pc[t] = "modify" /\ mutErr'[t] = "failed")
            => /\ pc'[t] = "done"
               /\ result'[t] = "remote-operation-failed"
               /\ size' = size
               /\ nGet'[t] = 0
               /\ g'[t] = NoRead
               /\ mu' = NoThread]_vars

C7_Witness ==
    \E t \in Threads :
        /\ pc[t] = "done"
        /\ op[t] \in ScaleOps
        /\ nMod[t] = 1
        /\ mutErr[t] = "failed"
        /\ result[t] = "remote-operation-failed"
        /\ nGet[t] = 0
        /\ size = prevSize[t]

\* C8: a poll reaches its deadline only by reads that all succeeded with a state
\* other than running; the only step the polling goroutine then takes returns
\* the convergence-timeout error from the call, with no further read and with
\* u.size unchanged.
C8_TimeoutLeavesSize ==
    /\ [](\A t \in Threads :
            (pc[t] = "poll" /\ waited[t] >= PollBudget)
                => /\ nGet[t] = waited[t]
                   /\ g[t].ok
                   /\ g[t].state # KubernetesNodeGroupStateRunning)
    /\ [][\A t \in Threads :
            (pc[t] = "poll" /\ waited[t] >= PollBudget /\ Moved(t))
                => /\ pc'[t] = "done"
                   /\ result'[t] = "convergence-timeout"
                   /\ nGet'[t] = nGet[t]
                   /\ size' = size]_vars

C8_Witness ==
    \E t \in Threads :
        /\ pc[t] = "done"
        /\ result[t] = "convergence-timeout"
        /\ nGet[t] = PollBudget
        /\ g[t].ok
        /\ g[t].state # KubernetesNodeGroupStateRunning

\* C9: a get request of the poll is issued only as the first read or after a
\* read that succeeded with a state other than running; a read that fails ends
\* the call in that step with the fetch-failed error and u.size unchanged.
C9_ReadFailureIsFatal ==
    [][\A t \in Threads :
        (pc[t] = "poll" /\ nGet'[t] = nGet[t] + 1)
            => /\ \/ (nGet[t] = 0 /\ g[t] = NoRead)
                  \/ (g[t].ok /\ g[t].state # KubernetesNodeGroupStateRunning)
               /\ g'[t] = FailedRead
                     => /\ pc'[t] = "done"
                        /\ result'[t] = "fetch-failed"
                        /\ size' = size]_vars

\* The second read of a poll failed.
C9_Witness ==
    \E t \in Threads :
        /\ pc[t] = "done"
        /\ result[t] = "fetch-failed"
        /\ g[t] = FailedRead
        /\ nGet[t] = 2

\* C10: the delete requests of DeleteNodes name the input nodes in input order,
\* and the request for a later node is issued only after the request before it
\* was accepted, the poll after it read a running group and u.size holds the
\* count of that read.
C10_DeletesInOrder ==
    /\ [](\A t \in Threads :
            /\ Len(delLog[t]) <= Len(nodes[t])
            /\ delLog[t] = SubSeq(nodes[t], 1, Len(delLog[t])))
    /\ [][\A t \in Threads :
            (Len(delLog'[t]) = Len(delLog[t]) + 1 /\ Len(delLog[t]) >= 1)
                => /\ mutErr[t] = "accepted"
                   /\ g[t].ok
                   /\ g[t].state = KubernetesNodeGroupStateRunning
                   /\ size = g[t].count]_vars

C10_Witness ==
    \E t \in Threads :
        /\ pc[t] = "done"
        /\ result[t] = "ok"
        /\ op[t] = "DeleteNodes"
        /\ Len(nodes[t]) = 2
        /\ nodes[t][1] # nodes[t][2]
        /\ delLog[t] = nodes[t]

\* The call of t returns an error in this step.
Failing(t) == pc[t] # "done" /\ pc'[t] = "done" /\ result'[t] # "ok"

\* C11: while DeleteNodes works on node k, u.size holds the count read back
\* after node k-1 (the size at the start of the call when k = 1), and no step of
\* the poll other than a read of a running group changes it; when the delete
\* request for node k or the poll after it fails, the call returns an error in
\* that step with u.size unchanged, with exactly k delete requests issued and
\* the remote count untouched by the failing step; a DeleteNodes call that
\* returned success had every request accepted.
C11_DeleteFailureStops ==
    /\ [](\A t \in Threads :
            /\ (pc[t] = "delete" /\ op[t] = "DeleteNodes")
                  => /\ Len(delLog[t]) = idx[t] - 1
                     /\ size = IF idx[t] = 1 THEN prevSize[t] ELSE g[t].count
            /\ (pc[t] = "poll" /\ op[t] = "DeleteNodes")
                  => Len(delLog[t]) = idx[t]
            /\ (pc[t] = "done" /\ op[t] = "DeleteNodes" /\ result[t] = "ok")
                  => /\ delLog[t] = nodes[t]
                     /\ mutErr[t] # "failed"
                     /\ g[t] # FailedRead)
    /\ [][\A t \in Threads :
            (op[t] = "DeleteNodes" /\ pc[t] \in {"delete", "poll"})
                => /\ (mutErr'[t] = "failed" \/ g'[t] = FailedRead
                          \/ (pc[t] = "poll" /\ waited[t] >= PollBudget /\ Moved(t)))
                      => /\ Failing(t)
                         /\ Len(delLog'[t]) = idx[t]
                         /\ size' = size
                         /\ rcount' = rcount
                         /\ mu' = NoThread
                   /\ (pc[t] = "poll" /\ pc'[t] # "delete") => size' = size]_vars

\* The delete of the second node failed after the first one was applied.
C11_Witness ==
    \E t \in Threads :
        /\ pc[t] = "done"
        /\ op[t] = "DeleteNodes"
        /\ Len(nodes[t]) = 2
        /\ Len(delLog[t]) = 2
        /\ mutErr[t] = "failed"
        /\ result[t] = "remote-operation-failed"
        /\ size = g[t].count
        /\ size # prevSize[t]

\* Goroutine t has issued a remote request in a call that has not returned.
InFlight(t) ==
    /\ pc[t] \in {"modify", "delete", "poll"}
    /\ nMod[t] + Len(delLog[t]) > 0

\* Goroutine t issues a remote request in this step.
Issues(t) ==
    \/ nMod'[t] = nMod[t] + 1
    \/ nGet'[t] = nGet[t] + 1
    \/ Len(delLog'[t]) = Len(delLog[t]) + 1

\* C12: no two goroutines are in flight on the controller at once, and a
\* goroutine issues a remote request only while it holds the lock and no other
\* goroutine is in flight or past the lock.
C12_OneInFlight ==
    /\ [](\A t, u \in Threads : (t # u) => ~(InFlight(t) /\ InFlight(u)))
    /\ [][\A t \in Threads :
            Issues(t) => /\ mu = t
                         /\ \A u \in Threads \ {t} :
                               pc[u] \in {"idle", "lock", "done"}]_vars

\* A second call waits for the lock while the first one sleeps in its poll.
C12_Witness ==
    \E t, u \in Threads :
        /\ t # u
        /\ pc[t] = "poll"
        /\ waited[t] >= 1
        /\ mu = t
        /\ pc[u] = "lock"

\* C13 (as claimed): the read of u.size a scale call computes size+delta from is
\* not separated from its modify request by another call's write of u.size: the
\* count the request carries is u.size plus delta, as in either serial order.
C13_RequestCarriesSizePlusDelta ==
    \A t \in Threads :
        (pc[t] = "modify" /\ op[t] \in ScaleOps) => newSize[t] = size + delta[t]

\* The call named c returns in this step.
Returns(c) == obs.call = "none" /\ obs'.call = c

\* Nothing but the returned value changes in this step.
OnlyObserved ==
    UNCHANGED <<size, mu, pc, op, delta, nodes, newSize, idx, waited, g, mutErr,
                result, prevSize, inSync, nMod, nGet, delLog, rcount, rstate,
                uNodes, uTaints, handle, manager>>

\* C14: TargetSize, Nodes, Id, MinSize and MaxSize return the cached value
\* without error and change nothing (no lock taken, no request issued), whether
\* or not a mutating operation holds the lock; while one holds it, u.size is the
\* size the operation began with until the operation itself writes it, so
\* TargetSize returns the size before or a size written by that operation.
C14_AccessorsAreLockFree ==
    /\ [](\A t \in Threads :
            (mu = t /\ (op[t] \in ScaleOps \/ idx[t] = 1)) => size = prevSize[t])
    /\ [][/\ Returns("TargetSize")
                => obs'.val = size /\ obs'.err = "nil" /\ OnlyObserved
          /\ Returns("Nodes")
                => obs'.val = uNodes /\ obs'.err = "nil" /\ OnlyObserved
          /\ Returns("Id")
                => obs'.val = "c1/g1" /\ obs'.err = "none" /\ OnlyObserved
          /\ Returns("MinSize")
                => obs'.val = nodeGroupMinSize /\ obs'.err = "none" /\ OnlyObserved
          /\ Returns("MaxSize")
                => obs'.val = nodeGroupMaxSize /\ obs'.err = "none" /\ OnlyObserved
          /\ \A t \in Threads :
                (mu = t /\ size' # size)
                    => /\ nGet'[t] = nGet[t] + 1
                       /\ g'[t].state = KubernetesNodeGroupStateRunning
                       /\ size' = g'[t].count]_vars

\* TargetSize was called while DeleteNodes held the lock and returned the size
\* DeleteNodes wrote after its first node.
C14_Witness ==
    \E t \in Threads :
        /\ mu = t
        /\ op[t] = "DeleteNodes"
        /\ pc[t] = "poll"
        /\ idx[t] = 2
        /\ obs.call = "TargetSize"
        /\ obs.locked
        /\ obs.val = size
        /\ size # prevSize[t]

\* C20: Create, Delete, GetOptions and AtomicIncreaseSize return the
\* not-implemented error (and no group, no options) for every argument and in
\* every state, also while a mutating operation holds the lock, and change
\* nothing: no request, no change of size, bounds, instances or lock;
\* Autoprovisioned returns false.
C20_UnsupportedOperations ==
    [][/\ \A c \in {"Create", "GetOptions"} :
            Returns(c)
                => obs'.val = "nil" /\ obs'.err = "not-implemented" /\ OnlyObserved
       /\ \A c \in {"Delete", "AtomicIncreaseSize"} :
            Returns(c) => obs'.err = "not-implemented" /\ OnlyObserved
       /\ Returns("Autoprovisioned") => obs'.val = FALSE /\ OnlyObserved]_vars

\* AtomicIncreaseSize was refused for a delta IncreaseSize would accept, while
\* a mutating operation held the lock.
C20_Witness ==
    /\ obs.call = "AtomicIncreaseSize"
    /\ obs.arg > 0
    /\ size + obs.arg <= maxSize
    /\ obs.locked
    /\ obs.err = "not-implemented"

\* The positions of the listing of t whose instance fetch succeeded, and the
\* place of such a position among them.
Kept(t) == {i \in 1..Len(details[t]) : details[t][i].ok}
Rank(t, i) == Cardinality({k \in Kept(t) : k <= i})

\* Refresh of t has returned success.
Refreshed(t) == rpc[t] = "done" /\ refreshErr[t] = "nil"

\* C15: when Refresh returns success, m.nodeGroups holds one controller per
\* listed group whose instance fetch succeeded and no other, in listing order;
\* each has the listed name, size equal to the listed count, the bounds
\* nodeGroupMinSize and nodeGroupMaxSize, one instance per fetched node with Id
\* "upcloud:////" followed by the node's UUID, and was built by this call.
C15_RefreshReplacesCollection ==
    \A t \in Threads :
        Refreshed(t)
            => /\ Len(details[t]) = Len(upcloudNodeGroups[t])
               /\ Len(nodeGroups) = Cardinality(Kept(t))
               /\ \A i \in Kept(t) :
                     LET grp == nodeGroups[Rank(t, i)]
                         listedGroup == upcloudNodeGroups[t][i]
                         fetched == details[t][i].Nodes
                     IN  /\ grp.name = listedGroup.Name
                         /\ grp.size = listedGroup.Count
                         /\ grp.minSize = 1
                         /\ grp.maxSize = nodeGroupMaxSize
                         /\ grp.builtBy = call[t]
                         /\ Len(grp.nodes) = Len(fetched)
                         /\ \A j \in 1..Len(fetched) :
                               grp.nodes[j].Id = "upcloud:////" \o fetched[j].UUID

\* The second Refresh of a run listed two groups of different counts and
\* fetched the instances of both.
C15_Witness ==
    \E t \in Threads :
        /\ Refreshed(t)
        /\ call[t] = 2
        /\ Len(upcloudNodeGroups[t]) = 2
        /\ Len(nodeGroups) = 2
        /\ nodeGroups[1].size # nodeGroups[2].size
        /\ Len(nodeGroups[1].nodes) = 1

\* C16: a failed instance fetch does not end Refresh and adds no controller;
\* when Refresh then returns success, the groups in m.nodeGroups are exactly
\* the listed groups whose fetch succeeded, every controller was built by this
\* call (none of the previous collection is left, whether or not its group's
\* fetch failed), and every instance of a controller comes from the answer this
\* call fetched for its group.
C16_FailedFetchOmitsGroup ==
    /\ [](\A t \in Threads :
            Refreshed(t)
                => /\ {nodeGroups[k].name : k \in 1..Len(nodeGroups)}
                        = {upcloudNodeGroups[t][i].Name : i \in Kept(t)}
                   /\ \A i \in 1..Len(details[t]) :
                         ~details[t][i].ok
                            => \A k \in 1..Len(nodeGroups) :
                                  nodeGroups[k].name # upcloudNodeGroups[t][i].Name
                   /\ \A k \in 1..Len(nodeGroups) :
                         /\ nodeGroups[k].builtBy = call[t]
                         /\ \E i \in Kept(t) :
                               /\ upcloudNodeGroups[t][i].Name = nodeGroups[k].name
                               /\ {nodeGroups[k].nodes[j].Id :
                                      j \in 1..Len(nodeGroups[k].nodes)}
                                    = {"upcloud:////" \o details[t][i].Nodes[j].UUID :
                                          j \in 1..Len(details[t][i].Nodes)})
    /\ [][\A t \in Threads :
            (Len(details'[t]) = Len(details[t]) + 1
                    /\ ~details'[t][Len(details'[t])].ok)
                => /\ rpc'[t] = "fetch"
                   /\ refreshErr'[t] = "none"
                   /\ groups'[t] = groups[t]
                   /\ nodeGroups' = nodeGroups]_vars

\* The second Refresh of a run listed two groups; the fetch of the first one
\* failed, and the collection holds the second one only.
C16_Witness ==
    \E t \in Threads :
        /\ Refreshed(t)
        /\ call[t] = 2
        /\ Len(upcloudNodeGroups[t]) = 2
        /\ ~details[t][1].ok
        /\ details[t][2].ok
        /\ Len(nodeGroups) = 1
        /\ nodeGroups[1].name = upcloudNodeGroups[t][2].Name
        /\ Len(nodeGroups[1].nodes) = 1

\* Goroutine t is between the first remote read of its Refresh and its return.
Enumerating(t) == rpc[t] \in {"list", "fetch"}

\* Goroutine t issues a remote read of Refresh in this step.
ReadsRemote(t) ==
    \/ rpc[t] = "list" /\ rpc'[t] # "list"
    \/ Len(details'[t]) = Len(details[t]) + 1

\* C17: two Refresh calls never enumerate at once: a goroutine issues a remote
\* read of Refresh only while it holds m.mu and the other one is not between
\* its own first read and its return; m.nodeGroups is always the entire local
\* collection of a single call, and a change of it stores the collection of the
\* goroutine holding the lock.
C17_RefreshSerializes ==
    /\ [](/\ \A t, u \in Threads : (t # u) => ~(Enumerating(t) /\ Enumerating(u))
          /\ \A k \in 1..Len(nodeGroups) : nodeGroups[k].builtBy = nodeGroups[1].builtBy)
    /\ [][/\ \A t \in Threads :
                ReadsRemote(t)
                    => mmu = t /\ \A u \in Threads \ {t} : ~Enumerating(u)
          /\ (nodeGroups' # nodeGroups)
                => \E t \in Threads :
                      /\ mmu = t
                      /\ Len(details[t]) = Len(upcloudNodeGroups[t])
                      /\ nodeGroups' = groups[t]]_vars

\* A second Refresh waits for the lock while the first one is in its loop.
C17_Witness ==
    \E t, u \in Threads :
        /\ t # u
        /\ rpc[t] = "fetch"
        /\ Len(details[t]) = 1
        /\ Len(upcloudNodeGroups[t]) = 2
        /\ mmu = t
        /\ rpc[u] = "lock"

\* Some controller of the collection holds an instance with this Id.
Cached(providerID) ==
    \E k \in 1..Len(nodeGroups) :
        \E j \in 1..Len(nodeGroups[k].nodes) : nodeGroups[k].nodes[j].Id = providerID

\* C18: NodeGroupForNode returns no error for any provider ID, changes nothing,
\* and returns no group for a provider ID that is the Id of no instance of any
\* controller of the collection.
C18_LookupMissIsNotAnError ==
    [][Returns("NodeGroupForNode")
          => /\ obs'.err = "nil"
             /\ ~Cached(obs'.arg) => obs'.val = 0
             /\ OnlyObserved]_vars

\* The UUID of a cached instance, without the prefix, was looked up.
C18_Witness ==
    /\ obs.call = "NodeGroupForNode"
    /\ obs.arg = "u1"
    /\ Cached("upcloud:////u1")
    /\ obs.val = 0
    /\ obs.err = "nil"

\* The status the claim gives for a remote node state.
ClaimedStatus(st, status) ==
    /\ st = "running"
          => status.State = "InstanceRunning" /\ ~status.ErrorInfo.set
    /\ st = "terminating"
          => status.State = "InstanceDeleting" /\ ~status.ErrorInfo.set
    /\ st = "pending"
          => status.State = "InstanceCreating" /\ ~status.ErrorInfo.set
    /\ st \notin {"running", "terminating", "pending"}
          => /\ status.State = "unset"
             /\ status.ErrorInfo.set
             /\ status.ErrorInfo.ErrorClass = "OtherErrorClass"
             /\ status.ErrorInfo.ErrorCode = st

\* C19: every instance Refresh builds from a fetched node has the status of the
\* node's state: running gives Running, terminating Deleting, pending Creating,
\* each without error info; any other state gives no instance state and error
\* info of the other-error class with the state as its code.
C19_StateMapperIsTotal ==
    \A t \in Threads :
        \A i \in Kept(t) :
            /\ Rank(t, i) <= Len(groups[t])
            /\ Len(groups[t][Rank(t, i)].nodes) = Len(details[t][i].Nodes)
            /\ \A j \in 1..Len(details[t][i].Nodes) :
                  ClaimedStatus(details[t][i].Nodes[j].State,
                                groups[t][Rank(t, i)].nodes[j].Status)

\* The collection holds instances built from a pending node and from a node in
\* a state the mapper does not know.
C19_Witness ==
    /\ Len(nodeGroups) = 1
    /\ Len(nodeGroups[1].nodes) = 1
    /\ nodeGroups[1].nodes[1].Status.ErrorInfo.set
    /\ nodeGroups[1].nodes[1].Status.ErrorInfo.ErrorCode = "unknown"
    /\ \E t \in Threads :
          /\ rpc[t] = "fetch"
          /\ Len(groups[t]) = 1
          /\ Len(groups[t][1].nodes) = 1
          /\ groups[t][1].nodes[1].Status.State = "InstanceCreating"

\* C21: TemplateNodeInfo returns no template and the not-implemented error
\* whenever the cached size is not zero, and a template and no error when the
\* cached size is zero; it changes nothing and issues no remote call.
C21_TemplateOnlyForEmptyGroup ==
    [][Returns("TemplateNodeInfo")
         => /\ size # 0 => obs'.err = ErrNotImplemented /\ obs'.val = "nil"
            /\ size = 0 => /\ obs'.err = "nil"
                           /\ obs'.val.Name = "upcloud-template-" \o groupName
                           /\ obs'.val.ProviderID = ProviderID(groupName)
            /\ OnlyObserved]_vars

\* A template was returned for a group emptied by DeleteNodes.
C21_Witness ==
    /\ obs.call = "TemplateNodeInfo"
    /\ obs.err = "nil"
    /\ size = 0
    /\ obs.val.Name = "upcloud-template-g1"

\* C22: the node of a returned template carries exactly the configured
\* taints: as many entries, in the same order, each with the configured
\* effect, key and value.
C22_TemplateCarriesConfiguredTaints ==
    (obs.call = "TemplateNodeInfo" /\ obs.err = "nil")
        => /\ Len(obs.val.Taints) = Len(uTaints)
           /\ \A i \in 1..Len(uTaints) :
                  /\ obs.val.Taints[i].Effect = uTaints[i].Effect
                  /\ obs.val.Taints[i].Key = uTaints[i].Key
                  /\ obs.val.Taints[i].Value = uTaints[i].Value

\* What the code returns instead: one zero-valued entry per configured taint,
\* followed by the configured taints in order.
C22_TemplateTaintsArePadded ==
    (obs.call = "TemplateNodeInfo" /\ obs.err = "nil")
        => /\ Len(obs.val.Taints) = 2 * Len(uTaints)
           /\ \A i \in 1..Len(uTaints) :
                  /\ obs.val.Taints[i] = ZeroTaint
                  /\ obs.val.Taints[Len(uTaints) + i] = uTaints[i]

\* A template was returned for a group configured with two different taints.
C22_Witness ==
    /\ obs.call = "TemplateNodeInfo"
    /\ obs.err = "nil"
    /\ Len(uTaints) = 2
    /\ uTaints[1] # uTaints[2]

\* The call of t has returned success after reading the remote group back.
SucceededWithReadBack(t) ==
    /\ pc[t] = "done"
    /\ result[t] = "ok"
    /\ g[t].ok

\* C23 (as claimed): after IncreaseSize, DecreaseTargetSize or DeleteNodes
\* returns success, the cached instance sequence is the one produced from the
\* final read-back of the remote group.
C23_SuccessReplacesInstances ==
    \A t \in Threads :
        SucceededWithReadBack(t) => uNodes = Instances(ReadBackNodes(g[t]))

\* C24: IncreaseSize, DecreaseTargetSize and DeleteNodes never change the
\* cached instance sequence, whether they succeed or fail; Nodes() returns
\* that same sequence, changes nothing and issues no remote call.
C24_OperationsKeepInstances ==
    [][/\ uNodes' = uNodes
       /\ Returns("Nodes")
            => /\ obs'.val = uNodes
               /\ obs'.err = "nil"
               /\ OnlyObserved
               /\ \A t \in Threads : nGet'[t] = nGet[t] /\ nMod'[t] = nMod[t]]_vars

\* Nodes() returned the sequence the controller was built with after a call
\* that changed the size to another number than there are instances.
C24_Witness ==
    /\ obs.call = "Nodes"
    /\ obs.val = uNodes
    /\ \E t \in Threads :
          /\ SucceededWithReadBack(t)
          /\ size # prevSize[t]
          /\ size # Len(uNodes)

\* C25 (as claimed): a DecreaseTargetSize call that returns success never
\* requested a remote count below the number of cached instances.
C25_DecreaseKeepsExistingNodes ==
    \A t \in Threads :
        (op[t] = "DecreaseTargetSize" /\ pc[t] = "done" /\ result[t] = "ok")
            => newSize[t] >= Len(uNodes)

\* node.Spec.ProviderID of the node named n: n1 is u1, n2 is u2.
NodeProviderID(n) == ProviderID(IF n = "n1" THEN "u1" ELSE "u2")

\* The node named n matches an instance of the controller.
Belongs(n) == HasInstance(uNodes, NodeProviderID(n))

\* C26 (as claimed, for a group that has grown since its instances were
\* cached): DeleteNodes returns an error when one of the given nodes matches no
\* instance of the controller, and the size is not reduced for that node.
C26_ForeignNodeIsRejected ==
    \A t \in Threads :
        (/\ op[t] = "DeleteNodes"
         /\ pc[t] = "done"
         /\ prevSize[t] > Len(uNodes)
         /\ \E i \in 1..Len(nodes[t]) : ~Belongs(nodes[t][i]))
            => /\ result[t] # "ok"
               /\ (\A i \in 1..Len(nodes[t]) : ~Belongs(nodes[t][i]))
                      => size >= prevSize[t]

\* C27: no mutation request is retried: a scale call issues at most one modify
\* request, DeleteNodes issues at most one delete request per given node, in
\* the order given, and a failed request ends the call with that failure in
\* the step that issued it.
C27_MutationsAreNotRetried ==
    /\ [](\A t \in Threads :
            /\ nMod[t] <= 1
            /\ Len(delLog[t]) <= Len(nodes[t])
            /\ delLog[t] = SubSeq(nodes[t], 1, Len(delLog[t]))
            /\ op[t] \in ScaleOps => delLog[t] = <<>>
            /\ op[t] = "DeleteNodes" => nMod[t] = 0)
    /\ [][\A t \in Threads :
            (/\ nMod'[t] # nMod[t] \/ delLog'[t] # delLog[t]
             /\ pc[t] # "idle"
             /\ mutErr'[t] = "failed")
                => /\ pc'[t] = "done"
                   /\ result'[t] = "remote-operation-failed"
                   /\ nMod'[t] + Len(delLog'[t]) = nMod[t] + Len(delLog[t]) + 1]_vars

\* DeleteNodes was given the same node twice: one request was issued for each
\* entry, the second failed and ended the call.
C27_Witness ==
    \E t \in Threads :
        /\ pc[t] = "done"
        /\ op[t] = "DeleteNodes"
        /\ Len(nodes[t]) = 2
        /\ nodes[t][1] = nodes[t][2]
        /\ delLog[t] = nodes[t]
        /\ mutErr[t] = "failed"
        /\ result[t] = "remote-operation-failed"

\* The controller the caller holds was built by an earlier Refresh than the
\* controllers of the collection.
HoldsStale ==
    /\ handle # NoHandle
    /\ \A k \in 1..Len(nodeGroups) : nodeGroups[k].builtBy > handle.builtBy

\* C28: no step of Refresh changes a controller built earlier (the one the
\* caller holds keeps its size and instances), and a size write of an
\* operation in flight on a controller of an earlier collection changes the
\* size of no controller of the collection Refresh has installed since.
C28_RefreshLeavesOldControllers ==
    [][/\ rpc' # rpc => UNCHANGED <<size, uNodes, uTaints, handle, mu>>
       /\ (size' # size /\ handle' = handle /\ HoldsStale)
            => /\ Len(nodeGroups') = Len(nodeGroups)
               /\ \A k \in 1..Len(nodeGroups) :
                      /\ SizeOf(nodeGroups[k])' = SizeOf(nodeGroups[k])
                      /\ nodeGroups'[k] = nodeGroups[k]]_vars

\* An operation begun on a controller of the first Refresh has written its
\* size after the second Refresh installed a controller of the same group.
C28_Witness ==
    /\ HoldsStale
    /\ Len(nodeGroups) = 1
    /\ nodeGroups[1].name = handle.name
    /\ nodeGroups[1].builtBy = 2
    /\ handle.builtBy = 1
    /\ pc[Caller] = "done"
    /\ result[Caller] = "ok"
    /\ size # prevSize[Caller]
    /\ size # nodeGroups[1].size

\* The call of t is under way: it waits for u.mu, issues a request or polls.
Running(t) == pc[t] \in {"lock", "modify", "delete", "poll"}

\* C29: every IncreaseSize, DecreaseTargetSize and DeleteNodes call returns in
\* the end, with success, a remote failure or the convergence timeout, and the
\* poll issues no read once its deadline has passed.
C29_EveryCallReturns ==
    /\ \A t \in Threads :
          Running(t) ~> (pc[t] = "done" /\ result[t] \in
                            {"ok", "remote-operation-failed", "fetch-failed",
                             "convergence-timeout"})
    /\ [][\A t \in Threads :
            (pc[t] = "poll" /\ waited[t] >= PollBudget) => nGet'[t] = nGet[t]]_vars

\* A call has returned the convergence timeout while the call of the other
\* goroutine waits for the lock.
C29_Witness ==
    \E t, u \in Threads :
        /\ pc[t] = "done"
        /\ result[t] = "convergence-timeout"
        /\ waited[t] = PollBudget
        /\ pc[u] = "lock"

\* C30: NodeGroupForNode returns the first controller, in the order of the
\* collection, one of whose cached instances has the provider ID as its Id; it
\* reads the cached instances only, changes nothing and issues no remote call.
C30_LookupReturnsFirstMatch ==
    [][(Returns("NodeGroupForNode") /\ Cached(obs'.arg))
          => /\ obs'.val \in 1..Len(nodeGroups)
             /\ HasInstance(nodeGroups[obs'.val].nodes, obs'.arg)
             /\ \A k \in 1..(obs'.val - 1) :
                    ~HasInstance(nodeGroups[k].nodes, obs'.arg)
             /\ obs'.err = "nil"
             /\ OnlyObserved]_vars

\* Two controllers hold an instance with the Id looked up: the first one was
\* returned.
C30_Witness ==
    /\ obs.call = "NodeGroupForNode"
    /\ Len(nodeGroups) = 2
    /\ HasInstance(nodeGroups[1].nodes, obs.arg)
    /\ HasInstance(nodeGroups[2].nodes, obs.arg)
    /\ obs.val = 1

\* The call of t holds u.mu: it is past the Lock and has not returned.
HoldsLock(t) == pc[t] \in {"modify", "delete", "poll"}

\* C31: u.mu is held exactly while a call is between its Lock and its return:
\* every return (success, failed request, failed read, timeout) releases it,
\* the lock is free whenever no call is under way, and a call that waits for
\* the lock gets it in the end.
C31_LockReleasedOnEveryExit ==
    /\ [](\A t \in Threads : mu = t <=> HoldsLock(t))
    /\ []((\A t \in Threads : ~HoldsLock(t)) => mu = NoThread)
    /\ [][\A t \in Threads :
            (HoldsLock(t) /\ pc'[t] = "done") => mu' = NoThread]_vars
    /\ \A t \in Threads : pc[t] = "lock" ~> HoldsLock(t)

\* A call has returned a failed read with the lock free while the call of the
\* other goroutine waits for it.
C31_Witness ==
    \E t, u \in Threads :
        /\ pc[t] = "done"
        /\ result[t] = "fetch-failed"
        /\ mu = NoThread
        /\ pc[u] = "lock"

\* C32: when the listing of Refresh fails, Refresh returns that error, the
\* collection is the one it was when the call took the manager lock, and the
\* manager lock is released.
C32_FailedListingKeepsCollection ==
    [][\A t \in Threads :
         /\ (rpc[t] = "list" /\ rpc'[t] = "done")
              => /\ refreshErr'[t] = "list-failed"
                 /\ nodeGroups' = nodeGroups
                 /\ mmu = t
                 /\ mmu' = NoThread
         /\ (mmu = t /\ rpc[t] = "list") => nodeGroups' = nodeGroups
         /\ (rpc[t] = "lock" /\ rpc'[t] = "list") => nodeGroups' = nodeGroups]_vars

\* The listing of a Refresh failed: the controllers of the earlier Refresh are
\* still cached and the lock is free.
C32_Witness ==
    \E t \in Threads :
        /\ rpc[t] = "done"
        /\ refreshErr[t] = "list-failed"
        /\ Len(nodeGroups) > 0
        /\ \A k \in 1..Len(nodeGroups) : nodeGroups[k].builtBy < call[t]
        /\ mmu = NoThread

\* C33 (as claimed): every modify request of IncreaseSize or DecreaseTargetSize
\* carries a count within minSize..maxSize of the controller.
C33_RequestsStayInBounds ==
    \A t \in Threads :
        (op[t] \in ScaleOps /\ nMod[t] >= 1)
            => (minSize <= newSize[t] /\ newSize[t] <= maxSize)

\* The call of t is DeleteNodes with no node.
DeletesNothing(t) == op[t] = "DeleteNodes" /\ nodes[t] = <<>>

\* C34: DeleteNodes of an empty node sequence returns success with the lock
\* released, has issued no delete, modify or read request, and none of its
\* steps changes the cached size or the remote group.
C34_EmptyDeleteDoesNothing ==
    /\ [](\A t \in Threads :
            (DeletesNothing(t) /\ pc[t] = "done")
                => /\ result[t] = "ok"
                   /\ delLog[t] = <<>>
                   /\ nMod[t] = 0
                   /\ nGet[t] = 0
                   /\ size = prevSize[t]
                   /\ mu = NoThread)
    /\ [][\A t \in Threads :
            (DeletesNothing(t) /\ pc'[t] # pc[t])
                => /\ UNCHANGED <<size, rcount, rstate, nMod, nGet, delLog>>
                   /\ pc[t] = "delete" => pc'[t] = "done"]_vars

\* An empty DeleteNodes has returned while the cached size lags the remote
\* count (an earlier call failed after its request was accepted).
C34_Witness ==
    \E t \in Threads :
        /\ DeletesNothing(t)
        /\ pc[t] = "done"
        /\ result[t] = "ok"
        /\ size # rcount

====
